---- MODULE Spec2Model ----
(***************************************************************************)
(* The channel simulator of usrp_rs (src/src/simulator.rs): the factory    *)
(* create_simulator, the simulated Receiver (recv, next_sample,            *)
(* update_cum_phase_offset, set_freq, set_time_now, tot_num_samps) and the *)
(* simulated Transmitter (send, set_freq), connected by an mpsc channel.   *)
(*                                                                         *)
(* Numbers.  Angles are counted in eighths of a turn (pi/4), so that a     *)
(* unit complex number is a power of z = exp(j*pi/4).  A sample is an      *)
(* element a + b*z + c*z^2 + d*z^3 of Z[z] (z^4 = -1), written <<a,b,c,d>>,*)
(* or NaN.  Delays are counted in quarters of a second.                    *)
(***************************************************************************)
EXTENDS Integers, Sequences, FiniteSets, TLC

\* ------------------------------------------------------------------ bounds
\* Total number of samples ever passed to send.
MaxSent == 2
\* Largest block handed to one send call.
MaxBlock == 2
\* Largest len of one recv call.
MaxLen == 2
\* Total number of samples next_sample produces over all recv calls.
MaxProduced == 3

\* -------------------------------------------------------- complex numbers
\* Quarter-second units per second (delays are f32 seconds in the source).
DelayDen == 4
\* `assert!(self.max_multipath * self.config.samp_rate < 1e6)`
SaneBound == 1000000
\* Microseconds per second: recv's timestamp is in microseconds.
MicrosPerSec == 1000000

Vec4(a, b, c, d) == <<a, b, c, d>>
\* Complex::zero()
CZero == [nan |-> FALSE, v |-> Vec4(0, 0, 0, 0)]
COne == [nan |-> FALSE, v |-> Vec4(1, 0, 0, 0)]
CJ == [nan |-> FALSE, v |-> Vec4(0, 0, 1, 0)]
CNaN == [nan |-> TRUE, v |-> Vec4(0, 0, 0, 0)]

\* x + y on Complex<f32>; NaN is absorbing.
CAdd(x, y) ==
  IF x.nan \/ y.nan THEN CNaN
  ELSE [nan |-> FALSE, v |-> [k \in 1..4 |-> x.v[k] + y.v[k]]]

\* x * y on Complex<f32>: polynomial product modulo z^4 = -1; NaN is absorbing
\* (0 * NaN = NaN).
CMul(x, y) ==
  IF x.nan \/ y.nan THEN CNaN
  ELSE LET coef(k) ==
             LET lo == {p \in (1..4) \X (1..4) : (p[1] - 1) + (p[2] - 1) = k}
                 hi == {p \in (1..4) \X (1..4) : (p[1] - 1) + (p[2] - 1) = k + 4}
                 RECURSIVE Sum(_)
                 Sum(S) == IF S = {} THEN 0
                           ELSE LET p == CHOOSE q \in S : TRUE
                                IN x.v[p[1]] * y.v[p[2]] + Sum(S \ {p})
             IN Sum(lo) - Sum(hi)
       IN [nan |-> FALSE, v |-> [k \in 1..4 |-> coef(k - 1)]]

\* Angle normalised to the range of Complex::arg(), (-pi, pi]: -3..4 eighths.
WrapArg(a) == ((a + 3) % 8) - 3

\* A unit-magnitude complex number exp(j * a * pi/4) as a sample value.
UnitC(a) ==
  LET w == WrapArg(a)
      m == IF w < 0 THEN w + 4 ELSE IF w = 4 THEN 0 ELSE w
      s == IF w < 0 \/ w = 4 THEN -1 ELSE 1
  IN [nan |-> FALSE, v |-> [k \in 1..4 |-> IF k = m + 1 THEN s ELSE 0]]

\* The phase-tracking complex numbers cur_cfo and cum_phase_offset are kept in
\* polar form: norm is "unit" (magnitude 1), "scaled" (a positive magnitude
\* that need not be 1), "zero" or "nan"; arg is the angle in eighths.
Polar(n, a) == [norm |-> n, arg |-> IF n \in {"zero", "nan"} THEN 0 ELSE WrapArg(a)]

\* z *= Complex::new(0., angle).exp(): rotation by a unit complex number.
Rotate(z, angle) == Polar(z.norm, z.arg + angle)

\* z /= z.norm(): 0/0 is NaN.
Normalize(z) ==
  IF z.norm \in {"zero", "nan"} THEN Polar("nan", 0) ELSE Polar("unit", z.arg)

\* a *= b for two phase-tracking numbers, b already normalised.
PolarMul(a, b) ==
  IF a.norm = "nan" \/ b.norm = "nan" THEN Polar("nan", 0)
  ELSE IF a.norm = "zero" \/ b.norm = "zero" THEN Polar("zero", 0)
  ELSE Polar(IF a.norm = "unit" /\ b.norm = "unit" THEN "unit" ELSE "scaled",
             a.arg + b.arg)

\* samp *= self.cum_phase_offset (normalised just before: magnitude 1 or NaN)
ApplyPhase(samp, z) ==
  IF z.norm = "nan" THEN CNaN ELSE CMul(samp, UnitC(z.arg))

\* ----------------------------------------------------------- configuration
\* One multipath tap: delay in quarter seconds, complex attenuation.
Tap(d, a) == [delay |-> d, attn |-> a]

\* RadioSimulatorConfig.  Standard deviations are -1 (negative), 0 or 1 (one
\* grid step); max_cfo is in eighths of a turn.
BaseConfig ==
  [max_start_time_offset |-> 2, samp_rate |-> 4, start_freq |-> 4,
   max_cfo |-> 1, cfo_drift |-> 0, phase_noise |-> 0, noise |-> 0,
   multipath |-> <<Tap(2, COne)>>]

\* Identity channel: no CFO, no phase noise, no noise, no taps.
IdentityConfig ==
  [BaseConfig EXCEPT !.max_cfo = 0, !.multipath = <<>>]

\* A single tap of delay 0 and attenuation 1, stochastic terms disabled.
DoublingConfig ==
  [BaseConfig EXCEPT !.multipath = <<Tap(0, COne)>>]

Configs ==
  { BaseConfig, IdentityConfig, DoublingConfig,
    [BaseConfig EXCEPT !.max_start_time_offset = 0],
    [BaseConfig EXCEPT !.max_cfo = 0],
    [BaseConfig EXCEPT !.noise = -1],
    [BaseConfig EXCEPT !.samp_rate = 1000000, !.multipath = <<Tap(4, COne)>>],
    [BaseConfig EXCEPT !.multipath = <<Tap(1, COne), Tap(3, CJ)>>],
    [BaseConfig EXCEPT !.multipath = <<Tap(1, COne)>>] }

\* Samples a caller passes to send.
Samples == {COne, CJ}
\* Centre frequencies a caller passes to set_freq.
Freqs == {4, 8}
\* Values of rng.gen() * 2 * PI, in eighths of a turn.
InitPhases == {0, 3}

\* Normal::new(0., std).sample(rng) on the angle grid: exactly 0 for std = 0.
NormalDraws(std) == IF std = 0 THEN {0} ELSE {-1, 0, 1}

Min(a, b) == IF a < b THEN a ELSE b

\* Blocks of at most n samples.
Blocks(n) == UNION {[1..k -> Samples] : k \in 0..n}

VARIABLES
  config,             \* the RadioSimulatorConfig given to create_simulator
  sim,                \* "none" before create_simulator, then "ok" or "panic"
  cur_cfo,            \* SimulatedRadioRx fields
  cum_phase_offset,
  samps_before_start,
  tot_num_samps,
  cur_freq,
  max_multipath,
  past_samps,
  buf,
  chan,               \* samples queued in the mpsc channel
  sender,             \* TRUE while the SimulatedRadioTx (the Sender) exists
  receiver,           \* TRUE while the SimulatedRadioRx (the Receiver) exists
  rx_pc,              \* "idle", "recv", "hung" or "panicked"
  rx_len,             \* len of the recv call in progress
  rx_i,               \* loop index of recv: samples written so far
  rx_ret,             \* what the last Receiver call returned
  tx_pc,              \* "idle" or "send"
  tx_data,            \* samples of the current send call not yet pushed
  tx_ret,             \* what the last Transmitter call returned
  sent,               \* history: every sample pushed into the channel, in order
  pulled,             \* history: every raw sample receiver.recv() yielded
  rx_base,            \* history: Len(pulled) when the current recv call began
  n_produced,         \* history: number of Ok results of next_sample
  n_returned,         \* history: sum of len over the recv calls that returned Ok
  tx_rx_alive         \* history: whether the Receiver existed when send was called

rxVars == <<cur_cfo, cum_phase_offset, samps_before_start, tot_num_samps,
            cur_freq, max_multipath, past_samps, buf>>
rxCall == <<rx_pc, rx_len, rx_i, rx_ret>>
txCall == <<tx_pc, tx_data, tx_ret>>
hist == <<sent, pulled, rx_base, n_produced, n_returned, tx_rx_alive>>
vars == <<config, sim, rxVars, chan, sender, receiver, rxCall, txCall, hist>>

\* What a recv or send call returned: status "ok", "err", "panic" or "hang"
\* ("none" before the first call); for an Ok recv(len), the number of samples
\* in the returned slice and the timestamp.
Ret(s, l, n, t) == [status |-> s, len |-> l, samples |-> n, ts |-> t]
NoRet == Ret("none", 0, 0, 0)

\* Configurations whose CFO drifts: a random walk of one grid step per sample.
DriftConfigs == {[BaseConfig EXCEPT !.cfo_drift = 1]}

\* The state before create_simulator is called with a configuration of cfgs.
InitWith(cfgs) ==
  /\ config \in cfgs
  /\ sim = "none"
  /\ cur_cfo = Polar("zero", 0)
  /\ cum_phase_offset = Polar("zero", 0)
  /\ samps_before_start = 0
  /\ tot_num_samps = 0
  /\ cur_freq = 0
  /\ max_multipath = 0
  /\ past_samps = <<>>
  /\ buf = <<>>
  /\ chan = <<>>
  /\ sender = FALSE
  /\ receiver = FALSE
  /\ rx_pc = "idle" /\ rx_len = 0 /\ rx_i = 0 /\ rx_ret = NoRet
  /\ tx_pc = "idle" /\ tx_data = <<>> /\ tx_ret = NoRet
  /\ sent = <<>> /\ pulled = <<>> /\ rx_base = 0
  /\ n_produced = 0 /\ n_returned = 0
  /\ tx_rx_alive = FALSE

Init == InitWith(Configs)

InitDrift == InitWith(DriftConfigs)

\* ----------------------------------------------------------------- factory
\* config.multipath.iter().map(|x| x.0).max(): the largest tap delay.
MaxDelay(taps) ==
  CHOOSE d \in {taps[k].delay : k \in 1..Len(taps)} :
    \A k \in 1..Len(taps) : taps[k].delay <= d

\* 2. * rng.gen() * config.max_cfo - config.max_cfo: a real number in
\* [-max_cfo, max_cfo), stored as the complex number (x, 0).
InitCfos(max_cfo) ==
  IF max_cfo = 0 THEN {Polar("zero", 0)}
  ELSE {Polar("scaled", 4), Polar("zero", 0), Polar("scaled", 0)}

\* rng.gen() % config.max_start_time_offset (a remainder by zero panics).
StartDelays(max_off) == 0..(max_off - 1)

\* create_simulator.  The largest delay of an empty tap list is no number:
\* max() is None there, and the build either panics on it or takes 0.
create_simulator ==
  /\ sim = "none"
  /\ \E none_is_zero \in BOOLEAN :
       IF \/ (config.multipath = <<>> /\ ~none_is_zero)
          \/ config.max_start_time_offset = 0
       THEN /\ sim' = "panic"
            /\ UNCHANGED <<rxVars, chan, sender, receiver>>
       ELSE /\ sim' = "ok"
            /\ max_multipath' =
                 IF config.multipath = <<>> THEN 0 ELSE MaxDelay(config.multipath)
            /\ cur_cfo' \in InitCfos(config.max_cfo)
            /\ \E a \in InitPhases : cum_phase_offset' = Polar("unit", a)
            /\ samps_before_start' \in StartDelays(config.max_start_time_offset)
            /\ tot_num_samps' = 0
            /\ cur_freq' = config.start_freq
            /\ past_samps' = <<>>
            /\ buf' = <<>>
            /\ chan' = <<>>
            /\ sender' = TRUE
            /\ receiver' = TRUE
  /\ UNCHANGED <<config, rxCall, txCall, hist>>

\* ------------------------------------------------------------- transmitter
\* SimulatedRadioTx::send, entry: the caller hands over a block.
SendCall ==
  /\ sim = "ok" /\ sender /\ tx_pc = "idle"
  /\ \E data \in Blocks(MaxBlock) :
       /\ Len(sent) + Len(data) <= MaxSent
       /\ tx_data' = data
  /\ tx_pc' = "send"
  /\ tx_rx_alive' = receiver
  /\ UNCHANGED <<config, sim, rxVars, chan, sender, receiver, rxCall, tx_ret,
                 sent, pulled, rx_base, n_produced, n_returned>>

\* Mutant of ChanPush: the value goes to the front of the queue.
ChanPushFront(q, samp) == <<samp>> \o q

\* mpsc Sender::send: the value goes to the back of the queue.
ChanPush(q, samp) == Append(q, samp)

\* Mutant of ChanSend: a send never notices that the Receiver is gone.
ChanSendBlind(receiver_alive) == "ok"

\* mpsc Sender::send fails (SendError) once the Receiver is gone.
ChanSend(receiver_alive) == IF receiver_alive THEN "ok" ELSE "closed"

\* SimulatedRadioTx::send, one turn of `for samp in data { sender.send(*samp)? }`
\* or the final Ok(()).
SendStep ==
  /\ tx_pc = "send"
  /\ IF tx_data = <<>>
       THEN /\ tx_pc' = "idle"
            /\ tx_ret' = Ret("ok", 0, 0, 0)
            /\ UNCHANGED <<tx_data, chan, sent>>
       ELSE IF ChanSend(receiver) = "ok"
         THEN /\ chan' = ChanPush(chan, Head(tx_data))
              /\ sent' = Append(sent, Head(tx_data))
              /\ tx_data' = Tail(tx_data)
              /\ UNCHANGED <<tx_pc, tx_ret>>
         ELSE /\ tx_pc' = "idle"
              /\ tx_data' = <<>>
              /\ tx_ret' = Ret("err", 0, 0, 0)
              /\ UNCHANGED <<chan, sent>>
  /\ UNCHANGED <<config, sim, rxVars, sender, receiver, rxCall,
                 pulled, rx_base, n_produced, n_returned, tx_rx_alive>>

\* SimulatedRadioTx::set_freq: Ok(()) and nothing else.
TxSetFreq ==
  /\ sim = "ok" /\ sender /\ tx_pc = "idle"
  /\ \E freq \in Freqs : UNCHANGED vars

\* The caller drops the SimulatedRadioTx: the channel's sending end closes;
\* what is queued stays readable.
DropTx ==
  /\ sim = "ok" /\ sender /\ tx_pc = "idle"
  /\ sender' = FALSE
  /\ UNCHANGED <<config, sim, rxVars, chan, receiver, rxCall, txCall, hist>>

\* The SimulatedRadioRx is destroyed: its fields, and the queue with
\* whatever was unread, are freed.
Destroyed ==
  /\ receiver' = FALSE
  /\ chan' = <<>>
  /\ cur_cfo' = Polar("zero", 0)
  /\ cum_phase_offset' = Polar("zero", 0)
  /\ samps_before_start' = 0
  /\ tot_num_samps' = 0
  /\ cur_freq' = 0
  /\ max_multipath' = 0
  /\ past_samps' = <<>>
  /\ buf' = <<>>

\* The caller drops the SimulatedRadioRx: the channel's receiving end closes.
DropRx ==
  /\ sim = "ok" /\ receiver /\ rx_pc = "idle"
  /\ Destroyed
  /\ UNCHANGED <<config, sim, sender, rxCall, txCall, hist>>

\* ---------------------------------------------------------------- receiver
\* Mutant of Priming: silence also whenever nothing is queued.
PrimingOrIdle(tot, start) == tot < start \/ chan = <<>>

\* Mutant of Priming: the gate opens one sample early.
PrimingStrict(tot, start) == tot + 1 < start

\* Start-gating test of next_sample: `self.tot_num_samps < self.samps_before_start`.
Priming(tot, start) == tot < start

\* Mutant of ChanRecv: fails as soon as the Sender is gone, queued samples or not.
ChanRecvEager(q, sender_alive) ==
  IF ~sender_alive THEN "closed" ELSE IF q # <<>> THEN "value" ELSE "wait"

\* mpsc Receiver::recv on queue q: the head if there is one; otherwise it
\* waits while the Sender exists and fails once it is gone.
ChanRecv(q, sender_alive) ==
  IF q # <<>> THEN "value" ELSE IF sender_alive THEN "wait" ELSE "closed"

\* (self.max_multipath * self.config.samp_rate).ceil() as usize
MaxPastSamples(mm, rate) == (mm * rate + DelayDen - 1) \div DelayDen

\* Mutant of PushEvict: the history is never evicted.
PushNoEvict(past, samp, cap) == <<samp>> \o past

\* past_samps.push_front(samp); while len >= cap { pop_back() }, for cap > 0.
PushEvict(past, samp, cap) ==
  LET p == <<samp>> \o past IN SubSeq(p, 1, Min(Len(p), cap - 1))

\* (d * self.cur_freq).round() as usize
TapOffset(d, freq) == (2 * d * freq + DelayDen) \div (2 * DelayDen)

\* Mutant of Multipath: the offsets are computed from the starting frequency.
RECURSIVE MultipathStale(_, _, _, _)
MultipathStale(samp, past, taps, freq) ==
  IF taps = <<>> THEN samp
  ELSE LET i == TapOffset(Head(taps).delay, config.start_freq)
           s == IF i < Len(past)
                  THEN CAdd(samp, CMul(Head(taps).attn, past[i + 1]))
                  ELSE samp
       IN MultipathStale(s, past, Tail(taps), freq)

\* The multipath loop: samp += attn * past_samps[i] for each tap whose offset
\* lies inside the history.
RECURSIVE Multipath(_, _, _, _)
Multipath(samp, past, taps, freq) ==
  IF taps = <<>> THEN samp
  ELSE LET i == TapOffset(Head(taps).delay, freq)
           s == IF i < Len(past)
                  THEN CAdd(samp, CMul(Head(taps).attn, past[i + 1]))
                  ELSE samp
       IN Multipath(s, past, Tail(taps), freq)

\* update_cum_phase_offset, the CFO half: drift by angle delta, bound the
\* walk, renormalise.  NaN compares false with everything.
UpdateCfo(cfo, delta, max_cfo) ==
  LET r == Rotate(cfo, delta)
      c == IF r.norm = "nan" THEN r
           ELSE IF r.arg < -max_cfo THEN Polar("unit", -max_cfo)
           ELSE IF r.arg > max_cfo
             THEN Polar(IF max_cfo = 0 THEN "zero" ELSE "scaled", 2)
           ELSE r
  IN Normalize(c)

\* update_cum_phase_offset, the phase half: phase noise eps, then the CFO.
UpdateCumPhase(cum, eps, cfo) == Normalize(PolarMul(Rotate(cum, eps), cfo))

NextOut(st, smp, pl, ps, cf, cm) ==
  [status |-> st, samp |-> smp, pull |-> pl, past |-> ps, cfo |-> cf, cum |-> cm]

\* The Streaming branch of next_sample on the raw sample samp just pulled:
\* every outcome the random draws allow.
Process(samp) ==
  LET cap == MaxPastSamples(max_multipath, config.samp_rate)
      past == PushEvict(past_samps, samp, cap)
      mixed == Multipath(samp, past, config.multipath, cur_freq)
  IN IF ~(max_multipath * config.samp_rate < SaneBound * DelayDen)
       THEN {NextOut("panic", CZero, TRUE, past_samps, cur_cfo, cum_phase_offset)}
     ELSE IF cap = 0
       THEN {NextOut("hang", CZero, TRUE, <<>>, cur_cfo, cum_phase_offset)}
     ELSE IF config.cfo_drift < 0
       THEN {NextOut("panic", CZero, TRUE, past, cur_cfo, cum_phase_offset)}
     ELSE UNION {
       LET cfo == UpdateCfo(cur_cfo, delta, config.max_cfo)
       IN IF config.phase_noise < 0
            THEN {NextOut("panic", CZero, TRUE, past, cfo, cum_phase_offset)}
          ELSE UNION {
            LET cum == UpdateCumPhase(cum_phase_offset, eps, cfo)
                rot == ApplyPhase(mixed, cum)
            IN IF config.noise < 0
                 THEN {NextOut("err", CZero, TRUE, past, cfo, cum)}
               ELSE {NextOut("ok",
                             CAdd(rot, [nan |-> FALSE, v |-> Vec4(nr, 0, ni, 0)]),
                             TRUE, past, cfo, cum) :
                       nr \in NormalDraws(config.noise),
                       ni \in NormalDraws(config.noise)}
            : eps \in NormalDraws(config.phase_noise)}
       : delta \in NormalDraws(config.cfo_drift)}

\* next_sample: the outcomes of one call (none while it waits on the channel).
next_sample ==
  IF Priming(tot_num_samps, samps_before_start)
    THEN {NextOut("ok", CZero, FALSE, past_samps, cur_cfo, cum_phase_offset)}
  ELSE LET r == ChanRecv(chan, sender)
       IN IF r = "wait" THEN {}
          ELSE IF r = "closed"
            THEN {NextOut("err", CZero, FALSE, past_samps, cur_cfo, cum_phase_offset)}
          ELSE Process(Head(chan))

\* self.buf.resize(len, Complex::zero()) when the buffer is shorter than len.
Resize(b, len) ==
  IF Len(b) < len THEN b \o [k \in 1..(len - Len(b)) |-> CZero] ELSE b

\* RadioRx::recv, entry.
RecvCall ==
  /\ sim = "ok" /\ receiver /\ rx_pc = "idle"
  /\ \E len \in 0..MaxLen :
       /\ n_produced + len <= MaxProduced
       /\ rx_len' = len
       /\ buf' = Resize(buf, len)
  /\ rx_pc' = "recv"
  /\ rx_i' = 0
  /\ rx_base' = Len(pulled)
  /\ UNCHANGED <<config, sim, cur_cfo, cum_phase_offset, samps_before_start,
                 tot_num_samps, cur_freq, max_multipath, past_samps, chan,
                 sender, receiver, rx_ret, txCall, sent, pulled, n_produced,
                 n_returned, tx_rx_alive>>

\* RadioRx::recv, one turn of `for i in 0..len { self.buf[i] = self.next_sample()? }`.
RecvSample ==
  /\ rx_pc = "recv" /\ rx_i < rx_len
  /\ \E o \in next_sample :
       /\ pulled' = IF o.pull THEN Append(pulled, Head(chan)) ELSE pulled
       /\ IF o.status = "panic"
            THEN \* the thread unwinds and the Receiver is destroyed
                 /\ rx_pc' = "panicked"
                 /\ rx_ret' = Ret("panic", rx_len, 0, 0)
                 /\ Destroyed
                 /\ UNCHANGED <<rx_i, n_produced>>
            ELSE /\ past_samps' = o.past
                 /\ cur_cfo' = o.cfo
                 /\ cum_phase_offset' = o.cum
                 /\ chan' = IF o.pull THEN Tail(chan) ELSE chan
                 /\ UNCHANGED <<samps_before_start, tot_num_samps, cur_freq,
                                max_multipath, receiver>>
                 /\ CASE o.status = "ok" ->
                           /\ buf' = [buf EXCEPT ![rx_i + 1] = o.samp]
                           /\ rx_i' = rx_i + 1
                           /\ n_produced' = n_produced + 1
                           /\ UNCHANGED <<rx_pc, rx_ret>>
                      [] o.status = "err" ->
                           /\ rx_pc' = "idle"
                           /\ rx_ret' = Ret("err", rx_len, 0, 0)
                           /\ UNCHANGED <<buf, rx_i, n_produced>>
                      [] o.status = "hang" ->
                           \* the eviction loop never ends
                           /\ rx_pc' = "hung"
                           /\ rx_ret' = Ret("hang", rx_len, 0, 0)
                           /\ UNCHANGED <<buf, rx_i, n_produced>>
  /\ UNCHANGED <<config, sim, sender, rx_len, txCall, sent, rx_base,
                 n_returned, tx_rx_alive>>

\* The timestamp recv returns with a block: `len as u64`.
Timestamp(len, tot) == len

\* The block recv returns: `&self.buf`, the whole buffer.
Block(b, len) == b

\* RadioRx::recv, exit: `Ok((&self.buf, len as u64))`.
RecvReturn ==
  /\ rx_pc = "recv" /\ rx_i = rx_len
  /\ rx_pc' = "idle"
  /\ rx_ret' = Ret("ok", rx_len, Len(Block(buf, rx_len)),
                   Timestamp(rx_len, tot_num_samps))
  /\ n_returned' = n_returned + rx_len
  /\ UNCHANGED <<config, sim, rxVars, chan, sender, receiver, rx_len, rx_i,
                 txCall, sent, pulled, rx_base, n_produced, tx_rx_alive>>

\* RadioRx::set_freq: `self.cur_freq = freq as f32; Ok(())`.
RxSetFreq ==
  /\ sim = "ok" /\ receiver /\ rx_pc = "idle"
  /\ \E freq \in Freqs :
       /\ cur_freq' = freq
  /\ UNCHANGED <<config, sim, cur_cfo, cum_phase_offset, samps_before_start,
                 tot_num_samps, max_multipath, past_samps, buf, chan, sender,
                 receiver, rxCall, txCall, hist>>

\* RadioRx::set_time_now: an empty body.
RxSetTimeNow ==
  /\ sim = "ok" /\ receiver /\ rx_pc = "idle"
  /\ UNCHANGED vars

Next ==
  \/ create_simulator
  \/ SendCall
  \/ SendStep
  \/ TxSetFreq
  \/ DropTx
  \/ RecvCall
  \/ RecvSample
  \/ RecvReturn
  \/ RxSetFreq
  \/ RxSetTimeNow
  \/ DropRx

Spec == Init /\ [][Next]_vars

\* The same program, created from a configuration with CFO drift.
SpecDrift == InitDrift /\ [][Next]_vars

\* ------------------------------------------------------------------ claims
\* A recv call has just returned Ok to its caller.
RecvOk == receiver /\ rx_pc = "idle" /\ rx_ret.status = "ok"

\* The step on which a recv call ends (Ok, Err, panic or hang).
RecvEnds == rx_pc = "recv" /\ rx_pc' # "recv"

\* The step on which a send call returns.
SendEnds == tx_pc = "send" /\ tx_pc' = "idle"

\* C1: the block a successful recv(len) returns holds exactly len samples,
\* whatever the lengths of the earlier calls.
C1_ExactlyLen == RecvOk => rx_ret.samples = rx_ret.len

\* C2: between recv calls tot_num_samps() equals the number of samples the
\* successful recv calls have returned so far.
C2_TotNumSamps == (receiver /\ rx_pc = "idle") => tot_num_samps = n_returned

\* C3: with start-delay D > 0 the first D samples produced are priming zeros
\* taken without touching the channel, and every later one is pulled from the
\* channel, the (D+1)-th being the first sample sent.
C3_PrimingEnds ==
  (receiver /\ samps_before_start > 0) =>
    /\ n_produced <= samps_before_start => pulled = <<>>
    /\ n_produced > samps_before_start =>
         /\ Len(pulled) >= n_produced - samps_before_start
         /\ pulled[1] = sent[1]

IsIdentity(c) ==
  c.max_cfo = 0 /\ c.phase_noise = 0 /\ c.noise = 0 /\ c.multipath = <<>>

\* C4: on the identity channel (max-CFO 0, no phase noise, no noise, no taps)
\* the simulator is created, a recv comes back, and what a Streaming recv
\* returns is what was sent, sample for sample and in order.
C4_IdentityChannel ==
  IsIdentity(config) =>
    /\ sim # "panic"
    /\ rx_ret.status \notin {"hang", "panic"}
    /\ (RecvOk /\ samps_before_start = 0) =>
         \A i \in 1..rx_ret.len : buf[i] = sent[rx_base + i]

\* C5: for a configuration with a valid noise deviation, a recv call ends in
\* a channel-closed error exactly when it needs one more sample while the queue
\* is empty and the Transmitter is dropped; by then every sample sent has been
\* pulled, and the Receiver is still usable (an error value, not a panic).
C5_ClosedOnlyWhenDrained ==
  [][(RecvEnds /\ config.noise >= 0) =>
       /\ rx_ret'.status = "err" <=> (rx_i < rx_len /\ chan = <<>> /\ ~sender)
       /\ rx_ret'.status = "err" => (receiver' /\ pulled' = sent' /\ rx_pc' = "idle")]_vars

\* C5 witness: a recv(k+1) call pulled the k >= 1 queued samples of a dropped
\* Transmitter and then failed.
C5_Witness ==
  /\ receiver /\ rx_pc = "idle" /\ rx_ret.status = "err" /\ config.noise >= 0
  /\ ~sender /\ Len(pulled) > rx_base
  /\ rx_ret.len = Len(pulled) - rx_base + 1
  /\ pulled = sent

\* C6: with max_start_time_offset = 0 the factory succeeds, with start-delay 0.
C6_ZeroOffsetCreates ==
  (config.max_start_time_offset = 0 /\ sim # "none") =>
    (sim = "ok" /\ (receiver => samps_before_start = 0))

\* C7: with the single tap (delay 0, attenuation 1) and the stochastic terms
\* off, a Streaming recv comes back and each sample it returns is the sent
\* sample doubled (times the phase offset, a unit rotation).
C7_DirectPathDoubled ==
  config = DoublingConfig =>
    /\ rx_ret.status # "hang"
    /\ (RecvOk /\ samps_before_start = 0) =>
         \A i \in 1..rx_ret.len :
           \E a \in -3..4 :
             buf[i] = CMul(UnitC(a), CAdd(sent[rx_base + i], sent[rx_base + i]))

\* C8 as stated: a send call, whatever its block, returns the channel-closed
\* error if the Receiver had been dropped before the call, and Ok if the
\* Receiver is alive.
C8_Original ==
  [][SendEnds => /\ ~tx_rx_alive => tx_ret'.status = "err"
                 /\ receiver => tx_ret'.status = "ok"]_vars

\* C8 amended: a send call fails with the channel-closed error exactly when
\* the Receiver is already dropped as a sample of the block is to be pushed;
\* with nothing left to push (an empty block too) it returns Ok even after
\* the drop, and it always succeeds while the Receiver is alive.
C8_SendClosed ==
  [][/\ SendEnds =>
          (tx_ret'.status = "err" <=> (tx_data # <<>> /\ ~receiver))
     /\ (tx_pc = "send" /\ tx_data # <<>> /\ ~receiver /\ txCall' # txCall) =>
          (tx_pc' = "idle" /\ tx_ret'.status = "err" /\ sent' = sent)]_vars

\* C8 witness: a send has failed on a dropped Receiver.
C8_Witness == tx_pc = "idle" /\ tx_ret.status = "err" /\ ~receiver

\* C9: the n-th raw sample the Receiver pulls is the n-th sample ever sent,
\* and while the Receiver lives the queue holds exactly the ones not yet
\* pulled: nothing is lost, duplicated or reordered.
C9_Fifo ==
  /\ Len(pulled) <= Len(sent)
  /\ pulled = SubSeq(sent, 1, Len(pulled))
  /\ receiver => pulled \o chan = sent

\* C9 witness: a Streaming Receiver has pulled two different samples.
C9_Witness ==
  /\ receiver /\ samps_before_start = 0
  /\ Len(pulled) >= 2 /\ pulled[1] # pulled[2]

\* C10: of two successive successful recv calls, the later timestamp is the
\* earlier one plus the duration, in microseconds, of the earlier block.
C10_TimestampAdvances ==
  [][(RecvEnds /\ rx_ret.status = "ok" /\ rx_ret'.status = "ok") =>
       (rx_ret'.ts - rx_ret.ts) * config.samp_rate = rx_ret.len * MicrosPerSec]_vars

\* A recv call is pending and the Receiver cannot take its next step.
RecvStuck ==
  \/ rx_pc = "hung"
  \/ rx_pc = "recv" /\ rx_i < rx_len /\ next_sample = {}

\* C11: a pending recv call is stuck only in Streaming, on an empty channel,
\* while the Transmitter is alive (so it goes on once a sample is sent or the
\* Transmitter is dropped); a pending send call is never stuck.
C11_OnlyWaitIsEmptyChannel ==
  /\ RecvStuck =>
       (~(tot_num_samps < samps_before_start) /\ chan = <<>> /\ sender)
  /\ tx_pc = "send" => ENABLED SendStep

\* At least one sample has gone through the whole Streaming branch.
Processed == receiver /\ samps_before_start = 0 /\ n_produced >= 1

\* The step on which next_sample pulls a sample and returns Ok.
ProcessStep == n_produced' = n_produced + 1 /\ Len(pulled') = Len(pulled) + 1

\* The angle of z lies in [-max_cfo, max_cfo].
InBounds(z) == -config.max_cfo <= z.arg /\ z.arg <= config.max_cfo

\* C12: the angle of the current CFO lies in [-max_cfo, max_cfo] after every
\* processed sample, whatever the drift angle drawn: a walk that is inside
\* the bounds stays inside, clamped at the boundary it would cross.
C12_CfoBounded ==
  [][(ProcessStep /\ cur_cfo.norm = "unit" /\ InBounds(cur_cfo)) =>
       (cur_cfo'.norm = "unit" /\ InBounds(cur_cfo'))]_vars

\* C13: after every processed sample the current CFO and the cumulative
\* phase offset have magnitude 1, for every configuration.
C13_UnitMagnitude ==
  Processed => (cur_cfo.norm = "unit" /\ cum_phase_offset.norm = "unit")

\* The largest tap delay of c needs SaneBound or more history slots.
TooLong(c) ==
  /\ c.multipath # <<>>
  /\ MaxPastSamples(MaxDelay(c.multipath), c.samp_rate) >= SaneBound

\* C17: the factory rejects a configuration whose largest delay needs
\* 1,000,000 or more history slots, and no recv call is where that shows.
C17_TooLongRejected ==
  (TooLong(config) /\ sim # "none") =>
    (sim = "panic" /\ rx_ret.status # "panic")

\* Some standard deviation of c is negative.
NegativeStd(c) == c.cfo_drift < 0 \/ c.phase_noise < 0 \/ c.noise < 0

\* C18: the factory rejects a configuration with a negative standard
\* deviation: no recv call pulls a sample or fails because of it.
C18_NegativeStdRejected ==
  (NegativeStd(config) /\ sim # "none") =>
    (sim = "panic" /\ pulled = <<>> /\ rx_ret.status \notin {"err", "panic"})

\* C20: processing a pulled sample always terminates: the history-eviction
\* loop ends for every configuration the factory accepted.
C20_EvictionTerminates == sim = "ok" => rx_pc # "hung"

\* C14: Priming to Streaming is one-way: once the Receiver has pulled a
\* sample, no step puts it back behind the start gate, and every sample
\* next_sample produces from then on is pulled from the channel.
C14_StreamingIsOneWay ==
  [][(receiver /\ pulled # <<>>) =>
       /\ receiver' => ~(tot_num_samps' < samps_before_start')
       /\ n_produced' = n_produced + 1 => Len(pulled') = Len(pulled) + 1]_vars

\* C14 witness: a Streaming Receiver went on pulling after a set_freq.
C14_Witness ==
  /\ receiver /\ Len(pulled) >= 2 /\ n_produced >= 2
  /\ cur_freq # config.start_freq

\* A step of the pending recv call.
RxStep == rx_pc = "recv" /\ (rx_i' # rx_i \/ rx_pc' # "recv")

C16_DelayLineBounded ==
  receiver =>
    Len(past_samps) <= (max_multipath * config.samp_rate + DelayDen - 1) \div DelayDen

\* C16 witness: the delay line is in use and a sample has been evicted.
C16_Witness ==
  /\ receiver /\ past_samps # <<>>
  /\ Len(pulled) > Len(past_samps)

\* The sum of attn * history[offset] over the first k taps whose offset, at
\* frequency freq, lies inside the history.
RECURSIVE TapSum(_, _, _)
TapSum(k, past, freq) ==
  IF k = 0 THEN CZero
  ELSE LET t == config.multipath[k]
           i == TapOffset(t.delay, freq)
       IN CAdd(TapSum(k - 1, past, freq),
               IF i < Len(past) THEN CMul(t.attn, past[i + 1]) ELSE CZero)

\* C19: set_freq is always possible on an idle Receiver and changes the
\* current frequency only; every sample processed afterwards (noise off) is
\* the raw sample plus the taps whose offset at the current frequency lies
\* inside the history, times the phase offset; a tap beyond the history adds
\* nothing.
C19_SetFreq ==
  [][/\ (receiver /\ rx_pc = "idle") => ENABLED RxSetFreq
     /\ (receiver /\ receiver' /\ cur_freq' # cur_freq) =>
          UNCHANGED <<config, sim, cur_cfo, cum_phase_offset, samps_before_start,
                      tot_num_samps, max_multipath, past_samps, buf, chan,
                      sender, rxCall, txCall, hist>>
     /\ (ProcessStep /\ config.noise = 0) =>
          buf'[rx_i + 1] =
            ApplyPhase(CAdd(Head(chan),
                            TapSum(Len(config.multipath), past_samps', cur_freq)),
                       cum_phase_offset')]_vars

\* C19 witness: after a set_freq to another frequency a sample was processed
\* for which a tap lies inside the history at the starting frequency and
\* beyond it at the current one.
C19_Witness ==
  /\ RecvOk /\ cur_freq # config.start_freq /\ cum_phase_offset.norm = "unit"
  /\ Len(pulled) >= 2 /\ rx_ret.len = 1
  /\ \E k \in 1..Len(config.multipath) :
       /\ TapOffset(config.multipath[k].delay, config.start_freq) < Len(past_samps)
       /\ ~(TapOffset(config.multipath[k].delay, cur_freq) < Len(past_samps))
       /\ buf[1] = ApplyPhase(pulled[Len(pulled)], cum_phase_offset)

\* The sum of attn * (the raw sample pulled offset positions before the last
\* one of raws) over the first k taps whose offset, at frequency freq, is at
\* most the number of earlier pulls.
RECURSIVE EarlierSum(_, _, _)
EarlierSum(k, raws, freq) ==
  IF k = 0 THEN CZero
  ELSE LET t == config.multipath[k]
           i == TapOffset(t.delay, freq)
       IN CAdd(EarlierSum(k - 1, raws, freq),
               IF i < Len(raws) THEN CMul(t.attn, raws[Len(raws) - i]) ELSE CZero)

\* C21: with the current frequency equal to the sample rate (noise off, unit
\* phase offset), every tap contributes once enough samples were pulled: a
\* sample pulled after at least i = round(delay * frequency) earlier pulls is
\* the raw sample plus attn * (the raw sample pulled i positions earlier) for
\* each such tap, the one with the largest delay included, times the phase
\* offset.
C21_EveryTapContributes ==
  [][(/\ ProcessStep
      /\ cur_freq = config.samp_rate
      /\ config.noise = 0
      /\ cum_phase_offset'.norm = "unit") =>
       buf'[rx_i + 1] =
         ApplyPhase(CAdd(Head(chan),
                         EarlierSum(Len(config.multipath), pulled', cur_freq)),
                    cum_phase_offset')]_vars
====
